---- MODULE Spec2Model ----
(***************************************************************************)
(* Model of the segmented S3 downloader of src/s3-downloader.mjs:          *)
(* S3MultiThreadDownloader.download / downloadRange / getPartResumeInfo /  *)
(* mergeFiles together with the ProgressTracker slots they write.          *)
(*                                                                         *)
(* The remote object is the byte sequence 0, 1, ..., S-1 (the byte at      *)
(* offset k has value k), so that any duplicated, skipped or reordered     *)
(* byte in a scratch file or in the final file is visible.                 *)
(***************************************************************************)
EXTENDS Integers, Sequences, FiniteSets, TLC

\* ---------------------------------------------------------------- bounds
MaxSize == 2
MaxN == 2
MaxFaults == 1
MaxRuns == 2
PlanMaxSize == 12
PlanMaxN == 5
TrackMaxCalls == 2
TrackSize == 24

VARIABLES
  objSize,            \* size of the remote object (what head reports)
  concurrency,        \* this.concurrency
  partFiles,          \* scratch files <basename>.part<i> on disk
  finalFile,          \* final file <download_dir>/<basename> on disk
  supPc,              \* position of download()
  nextSpawn,          \* loop index of the spawn loop
  fileSize,           \* this.fileSize
  parts,              \* the parts array of download()
  mergeIdx,           \* loop index of the copy loop of mergeFiles
  mergeRead,          \* the current part's data was handed to the write stream
  wsBuf,              \* bytes accepted by the final write stream, not yet on disk
  pc,                 \* position of each downloadRange call
  resumeBytes,        \* downloadRange: resumeBytes
  isValid,            \* downloadRange: resumeInfo.isValid
  req,                \* downloadRange: the Range of the GetObjectCommand
  session,            \* downloadRange: currentSessionDownloaded
  responseContentLength, \* downloadRange: responseContentLength (-1: no response
                      \* is being streamed)
  writeStreams,       \* downloadRange: write streams that are open on the
                      \* scratch file
  downloadedPerPart,  \* ProgressTracker.downloadedPerPart
  partStatus,         \* ProgressTracker.partStatus
  partRetryCount,     \* ProgressTracker.partRetryCount
  partExpectedSizes,  \* ProgressTracker.partExpectedSizes
  progressInterval,   \* ProgressTracker.progressInterval is set
  faults,             \* history: environment faults injected so far
  run,                \* history: number of the current process run
  kills,              \* history: runs that were killed before finishing
  afterSuccess,       \* history: the previous run returned successfully
  afterClean,         \* history: ... and deleted every scratch file
  startComplete,      \* history: this run found every scratch file at its
                      \* full length L_i
  cleanFailed,        \* history: scratch files whose unlink failed in cleanup
  fetched,            \* history: body bytes received from the network this run
  loggerOpen,         \* Logger.logStream was not ended yet
  wroteAfterEnd,      \* history: a log line was written to the ended logStream
  reported,           \* history: logFinalStatus wrote its report in this run
  now,                \* Date.now() at the tracker's last call, in ms
  partSpeeds,         \* ProgressTracker.partSpeeds
  partLastUpdateTime, \* ProgressTracker.partLastUpdateTime (0: never)
  partLastBytes,      \* ProgressTracker.partLastBytes
  partSpeedHistory,   \* ProgressTracker.partSpeedHistory
  globalSpeedHistory, \* ProgressTracker.globalSpeedHistory
  lastGlobalUpdateTime, \* ProgressTracker.lastGlobalUpdateTime
  lastGlobalBytes,    \* ProgressTracker.lastGlobalBytes
  etaInfo,            \* updateDisplay: etaInfo of the last display
  updates             \* history: calls of updatePartProgress so far

inputs  == <<objSize, concurrency>>
disk    == <<partFiles, finalFile>>
sup     == <<supPc, nextSpawn, fileSize, parts, mergeIdx, mergeRead, wsBuf>>
worker  == <<pc, resumeBytes, isValid, req, session, responseContentLength,
             writeStreams>>
tracker == <<downloadedPerPart, partStatus, partRetryCount, partExpectedSizes,
             progressInterval>>
histRun == <<run, kills, afterSuccess, afterClean, startComplete, cleanFailed>>
hist    == <<faults, histRun, fetched>>
logging == <<loggerOpen, wroteAfterEnd, reported>>
sampling == <<now, partSpeeds, partLastUpdateTime, partLastBytes,
              partSpeedHistory, globalSpeedHistory, lastGlobalUpdateTime,
              lastGlobalBytes, etaInfo, updates>>
vars    == <<inputs, disk, sup, worker, tracker, hist, logging, sampling>>

\* ---------------------------------------------------------------- helpers
Segs == 0 .. (concurrency - 1)

RECURSIVE SumTo(_, _)
SumTo(f, n) == IF n < 0 THEN 0 ELSE f[n] + SumTo(f, n - 1)

\* bytes [a, a+n) of the remote object
ObjectBytes(a, n) == [k \in 1 .. n |-> a + k - 1]

\* a file on disk: existsSync and its content
Absent == [exists |-> FALSE, data |-> << >>]
File(d) == [exists |-> TRUE, data |-> d]
Size(f) == Len(f.data)

\* ------------------------------------------------------------ plan builder
PartSize(S, N) == S \div N

PartStart(i, S, N) == i * PartSize(S, N)

PartEndLastBroken(i, S, N) == PartStart(i, S, N) + PartSize(S, N) - 1

PartEnd(i, S, N) ==
  IF i = N - 1 THEN S - 1 ELSE PartStart(i, S, N) + PartSize(S, N) - 1

ExpectedSize(i, S, N) == PartEnd(i, S, N) - PartStart(i, S, N) + 1

\* -------------------------------------------------------- resume inspector
\* err: "none", "stat" (statSync throws) or "unlink" (unlinkSync throws)
FsErrors == {"none", "stat", "unlink"}

\* the errors that can make a difference for this file
FsErrorsFor(f, expectedSize) ==
  IF ~f.exists THEN {"none"}
  ELSE IF Size(f) > expectedSize THEN FsErrors
  ELSE {"none", "stat"}

ErrCost(e) == IF e = "none" THEN 0 ELSE 1

GetPartResumeInfoKeepsOverlong(f, expectedSize, err) ==
  IF ~f.exists
    THEN [resumeBytes |-> 0, isValid |-> TRUE, isComplete |-> FALSE, file |-> f]
    ELSE [resumeBytes |-> Size(f), isValid |-> TRUE,
          isComplete |-> Size(f) = expectedSize, file |-> f]

GetPartResumeInfoErrorDeletes(f, expectedSize, err) ==
  IF ~f.exists
    THEN [resumeBytes |-> 0, isValid |-> TRUE, isComplete |-> FALSE, file |-> f]
  ELSE IF err # "none" \/ Size(f) > expectedSize
    THEN [resumeBytes |-> 0, isValid |-> FALSE, isComplete |-> FALSE,
          file |-> Absent]
  ELSE [resumeBytes |-> Size(f), isValid |-> TRUE,
        isComplete |-> Size(f) = expectedSize, file |-> f]

GetPartResumeInfo(f, expectedSize, err) ==
  IF ~f.exists
    THEN [resumeBytes |-> 0, isValid |-> TRUE, isComplete |-> FALSE, file |-> f]
  ELSE IF err = "stat"
    THEN [resumeBytes |-> 0, isValid |-> FALSE, isComplete |-> FALSE, file |-> f]
  ELSE IF Size(f) > expectedSize
    THEN IF err = "unlink"
           THEN [resumeBytes |-> 0, isValid |-> FALSE, isComplete |-> FALSE,
                 file |-> f]
           ELSE [resumeBytes |-> 0, isValid |-> FALSE, isComplete |-> FALSE,
                 file |-> Absent]
  ELSE IF Size(f) = expectedSize
    THEN [resumeBytes |-> Size(f), isValid |-> TRUE, isComplete |-> TRUE,
          file |-> f]
  ELSE [resumeBytes |-> Size(f), isValid |-> TRUE, isComplete |-> FALSE,
        file |-> f]

\* ------------------------------------------------------------ part status
St(kind, attempt) == [kind |-> kind, attempt |-> attempt]

CompletedKinds == {"completed", "completed (already exists)", "completed (resumed)"}

DisplayCategories == {"completed", "downloading", "pending", "retrying"}

\* the four filters of updateDisplay: s.includes("completed"),
\* s.includes("downloading"), s === "pending", s.includes("retrying"), for
\* the status strings the program writes (an error message is taken to
\* contain none of the three words)
InCategory(kind, cat) ==
  CASE cat = "completed" -> kind \in CompletedKinds
    [] cat = "downloading" -> kind = "downloading"
    [] cat = "pending" -> kind = "pending"
    [] cat = "retrying" -> kind = "retrying"

\* the number updateDisplay shows for category cat
DisplayCount(cat) ==
  Cardinality({i \in Segs : InCategory(partStatus[i].kind, cat)})

UpdatePartStatusAll(status, partIndex, st) == [j \in DOMAIN status |-> st]

\* ProgressTracker.updatePartStatus
UpdatePartStatus(status, partIndex, st) == [status EXCEPT ![partIndex] = st]

\* ----------------------------------------------------------- scratch open
\* fs.createWriteStream(tempFile, {flags}): "a" keeps the bytes, "w" truncates
OpenFlagAlwaysAppend(rb) == "a"

OpenFlagAlwaysTruncate(rb) == "w"

OpenFlag(rb) == IF rb > 0 THEN "a" ELSE "w"

CreateWriteStream(f, flag) ==
  IF flag = "a" /\ f.exists THEN f ELSE File(<< >>)

\* ------------------------------------------------- one pass of the loop top
LoopConditionCapped(retries) == retries < 1

\* while (true)
LoopCondition(retries) == TRUE

IncrementRetryCountNever(r) == r

\* ProgressTracker.incrementRetryCount
IncrementRetryCount(r) == r + 1

ActualStartNoResume(originalStart, rb) == originalStart

AutoCloseLeaks(n) == n

\* streamPipeline settles: the write stream of the attempt has finished or
\* was destroyed, and closes its descriptor (autoClose)
AutoClose(n) == n - 1

ActualStart(originalStart, rb) == originalStart + rb

\* downloadRange from the top of the loop to its first await (or return):
\* the new values of the worker's slot
Attempt(f, originalStart, originalEnd, retries, downloaded, status, err) ==
  LET expectedSize == originalEnd - originalStart + 1
      resumeInfo == GetPartResumeInfo(f, expectedSize, err)
      rb == resumeInfo.resumeBytes
      actualStart == ActualStart(originalStart, rb)
      remainingBytes == originalEnd - actualStart + 1
      base == [file |-> resumeInfo.file, resumeBytes |-> rb,
               isValid |-> resumeInfo.isValid,
               retries |-> IncrementRetryCount(retries),
               req |-> [start |-> 0, end |-> -1]]
  IN  IF ~LoopCondition(retries)
        THEN [file |-> f, resumeBytes |-> 0, isValid |-> TRUE,
              retries |-> retries, req |-> [start |-> 0, end |-> -1],
              pc |-> "rejected", status |-> status, downloaded |-> downloaded]
      ELSE IF resumeInfo.isComplete
        THEN [base EXCEPT !.file = resumeInfo.file] @@
             [pc |-> "done", status |-> St("completed (already exists)", 0),
              downloaded |-> expectedSize]
      ELSE IF remainingBytes <= 0
        THEN base @@
             [pc |-> "done", status |-> St("completed (resumed)", 0),
              downloaded |-> expectedSize]
      ELSE [base EXCEPT !.req = [start |-> actualStart, end |-> originalEnd]] @@
           [pc |-> "sending", status |-> St("downloading", retries + 1),
            downloaded |-> downloaded]

\* the state of a worker that was not spawned yet
NoReq == [start |-> 0, end |-> -1]

\* ------------------------------------------------- ProgressTracker sampling
\* Times are in milliseconds (Date.now()); speeds are bytes per second and
\* kept as exact fractions [n, d] with d > 0; d = 0 stands for Infinity.

\* Date.now() when the tracker was constructed
Epoch == 1000

\* this.speedHistorySize
SpeedHistorySize == 10

\* the time difference assumed for a part that was never sampled
FirstSampleMs == 1000

\* the global history takes a record at most once per this many ms
GlobalUpdateMs == 1000

\* the global history keeps records younger than this many ms
GlobalWindowMs == 30000

\* a part updated less than this many ms ago counts as active
RecentThreshold == 5000

\* getPartAverageSpeed averages this many newest records
PartRecentRecords == 5

\* getGlobalAverageSpeed averages this many newest records
GlobalRecentRecords == 10

Abs(x) == IF x < 0 THEN -x ELSE x

RECURSIVE GCD(_, _)
GCD(a, b) == IF b = 0 THEN a ELSE GCD(b, a % b)

\* the number n / d (d > 0) in lowest terms
Rat(n, d) ==
  LET g == GCD(Abs(n), d)
  IN  [n |-> IF n < 0 THEN -(Abs(n) \div g) ELSE n \div g, d |-> d \div g]

RZero == [n |-> 0, d |-> 1]
Infinity == [n |-> 1, d |-> 0]

RAdd(x, y) == Rat(x.n * y.d + y.n * x.d, x.d * y.d)

\* recentHistory.reduce((sum, record) => sum + record.speed, 0)
RECURSIVE SumSpeeds(_)
SumSpeeds(h) ==
  IF h = << >> THEN RZero ELSE RAdd(h[1].speed, SumSpeeds(Tail(h)))

\* history.slice(-k)
LastRecords(h, k) ==
  SubSeq(h, IF Len(h) > k THEN Len(h) - k + 1 ELSE 1, Len(h))

\* the average of the speeds of a non-empty list of records
AverageSpeed(h) ==
  LET s == SumSpeeds(h) IN Rat(s.n, s.d * Len(h))

\* (bytesDiff / timeDiff) * 1000, for timeDiff > 0
SpeedOf(bytesDiff, timeDiff) == Rat(bytesDiff * 1000, timeDiff)

\* speed > 0 ? remaining / speed : Infinity
EtaBy(remaining, speed) ==
  IF speed.n > 0 THEN Rat(remaining * speed.d, speed.n) ELSE Infinity

\* eta < Infinity && eta > 0
FinitePositive(eta) == eta.d > 0 /\ eta.n > 0

UpdatePartSpeedHistoryNoShift(h, speed, t) ==
  Append(h, [speed |-> speed, timestamp |-> t])

\* ProgressTracker._updatePartSpeedHistory, on the history of one part
UpdatePartSpeedHistory(h, speed, t) ==
  LET pushed == Append(h, [speed |-> speed, timestamp |-> t])
  IN  IF Len(pushed) > SpeedHistorySize THEN Tail(pushed) ELSE pushed

\* ProgressTracker.getTotalDownloaded, on a tracker record
GetTotalDownloaded(tr) == SumTo(tr.downloadedPerPart, concurrency - 1)

\* ProgressTracker._updateGlobalSpeedHistory at time t, on a tracker record
UpdateGlobalSpeedHistory(tr, t) ==
  LET totalDownloaded == GetTotalDownloaded(tr)
      timeDiff == t - tr.lastGlobalUpdateTime
      bytesDiff == totalDownloaded - tr.lastGlobalBytes
  IN  IF t - tr.lastGlobalUpdateTime >= GlobalUpdateMs /\ timeDiff > 0
        THEN [tr EXCEPT
                !.globalSpeedHistory =
                  SelectSeq(Append(@, [speed |-> SpeedOf(bytesDiff, timeDiff),
                                       timestamp |-> t]),
                            LAMBDA r : r.timestamp > t - GlobalWindowMs),
                !.lastGlobalUpdateTime = t,
                !.lastGlobalBytes = totalDownloaded]
        ELSE tr

\* ProgressTracker.updatePartProgress(partIndex, downloaded, speed) at time
\* t, on a tracker record; speed = RZero is the default of the parameter
UpdatePartProgress(tr, partIndex, downloaded, speed, t) ==
  LET lastTime == tr.partLastUpdateTime[partIndex]
      timeDiff == t - (IF lastTime # 0 THEN lastTime ELSE t - FirstSampleMs)
      bytesDiff == downloaded - tr.partLastBytes[partIndex]
      sampled ==
        IF speed.n > 0
          THEN [tr EXCEPT
                  !.partSpeeds[partIndex] = speed,
                  !.partSpeedHistory[partIndex] =
                    UpdatePartSpeedHistory(@, speed, t)]
        ELSE IF timeDiff > 0 /\ bytesDiff >= 0
          THEN [tr EXCEPT
                  !.partSpeeds[partIndex] = SpeedOf(bytesDiff, timeDiff),
                  !.partSpeedHistory[partIndex] =
                    UpdatePartSpeedHistory(@, SpeedOf(bytesDiff, timeDiff), t)]
        ELSE tr
  IN  UpdateGlobalSpeedHistory(
        [[sampled EXCEPT !.downloadedPerPart[partIndex] = downloaded]
           EXCEPT !.partLastUpdateTime[partIndex] = t,
                  !.partLastBytes[partIndex] = downloaded],
        t)

\* ProgressTracker.getPartAverageSpeed
GetPartAverageSpeed(tr, partIndex) ==
  LET history == tr.partSpeedHistory[partIndex]
  IN  IF Len(history) = 0
        THEN tr.partSpeeds[partIndex]
        ELSE AverageSpeed(LastRecords(history, PartRecentRecords))

\* the parts getActiveThreadsSpeed counts as active at time t
ActiveParts(tr, t) ==
  {i \in Segs : /\ tr.partLastUpdateTime[i] > 0
                /\ t - tr.partLastUpdateTime[i] < RecentThreshold
                /\ tr.partSpeeds[i].n > 0}

RECURSIVE SumAverages(_, _)
SumAverages(tr, I) ==
  IF I = {} THEN RZero
  ELSE LET i == CHOOSE j \in I : TRUE
       IN  RAdd(GetPartAverageSpeed(tr, i), SumAverages(tr, I \ {i}))

\* ProgressTracker.getActiveThreadsSpeed at time t
GetActiveThreadsSpeed(tr, t) ==
  [activeSpeed |-> SumAverages(tr, ActiveParts(tr, t)),
   activeCount |-> Cardinality(ActiveParts(tr, t))]

\* elapsedTime > 0 ? totalDownloaded / elapsedTime : 0
OverallAverageSpeed(tr, t) ==
  IF t - Epoch > 0 THEN SpeedOf(GetTotalDownloaded(tr), t - Epoch) ELSE RZero

\* ProgressTracker.getGlobalAverageSpeed at time t
GetGlobalAverageSpeed(tr, t) ==
  IF Len(tr.globalSpeedHistory) = 0
    THEN OverallAverageSpeed(tr, t)
    ELSE AverageSpeed(LastRecords(tr.globalSpeedHistory, GlobalRecentRecords))

\* what updateDisplay keeps of the result of calculateETA
Eta(method, eta, activeThreads, t) ==
  [method |-> method, eta |-> eta, activeThreads |-> activeThreads, at |-> t]

\* no display happened since the last sample
NoEta == Eta("none", RZero, 0, 0)

CalculateETAGlobalFirst(tr, t, totalSize) ==
  LET remaining == totalSize - GetTotalDownloaded(tr)
      activeThreadsInfo == GetActiveThreadsSpeed(tr, t)
      etaByActiveThreads == EtaBy(remaining, activeThreadsInfo.activeSpeed)
      etaByGlobalAvg == EtaBy(remaining, GetGlobalAverageSpeed(tr, t))
      etaByOverallAvg == EtaBy(remaining, OverallAverageSpeed(tr, t))
  IN  IF remaining <= 0
        THEN Eta("zero", RZero, 0, t)
      ELSE IF FinitePositive(etaByGlobalAvg)
        THEN Eta("global", etaByGlobalAvg, activeThreadsInfo.activeCount, t)
      ELSE IF activeThreadsInfo.activeCount >= 2
              /\ FinitePositive(etaByActiveThreads)
        THEN Eta("active", etaByActiveThreads,
                 activeThreadsInfo.activeCount, t)
      ELSE IF FinitePositive(etaByOverallAvg)
        THEN Eta("overall", etaByOverallAvg, activeThreadsInfo.activeCount, t)
      ELSE Eta("unknown", RZero, activeThreadsInfo.activeCount, t)

\* ProgressTracker.calculateETA at time t; the tag active(k) is the method
\* "active" with activeThreads = k, and "zero" is the early return of 0
CalculateETA(tr, t, totalSize) ==
  LET remaining == totalSize - GetTotalDownloaded(tr)
      activeThreadsInfo == GetActiveThreadsSpeed(tr, t)
      etaByActiveThreads == EtaBy(remaining, activeThreadsInfo.activeSpeed)
      etaByGlobalAvg == EtaBy(remaining, GetGlobalAverageSpeed(tr, t))
      etaByOverallAvg == EtaBy(remaining, OverallAverageSpeed(tr, t))
  IN  IF remaining <= 0
        THEN Eta("zero", RZero, 0, t)
      ELSE IF activeThreadsInfo.activeCount >= 2
              /\ FinitePositive(etaByActiveThreads)
        THEN Eta("active", etaByActiveThreads,
                 activeThreadsInfo.activeCount, t)
      ELSE IF FinitePositive(etaByGlobalAvg)
        THEN Eta("global", etaByGlobalAvg, activeThreadsInfo.activeCount, t)
      ELSE IF FinitePositive(etaByOverallAvg)
        THEN Eta("overall", etaByOverallAvg, activeThreadsInfo.activeCount, t)
      ELSE Eta("unknown", RZero, activeThreadsInfo.activeCount, t)

\* the sampling fields of the tracker as one record
SamplingState ==
  [downloadedPerPart |-> downloadedPerPart,
   partSpeeds |-> partSpeeds,
   partLastUpdateTime |-> partLastUpdateTime,
   partLastBytes |-> partLastBytes,
   partSpeedHistory |-> partSpeedHistory,
   globalSpeedHistory |-> globalSpeedHistory,
   lastGlobalUpdateTime |-> lastGlobalUpdateTime,
   lastGlobalBytes |-> lastGlobalBytes]

\* the sampling fields as the constructor of ProgressTracker leaves them
Constructed ==
  [downloadedPerPart |-> [i \in Segs |-> 0],
   partSpeeds |-> [i \in Segs |-> RZero],
   partLastUpdateTime |-> [i \in Segs |-> 0],
   partLastBytes |-> [i \in Segs |-> 0],
   partSpeedHistory |-> [i \in Segs |-> << >>],
   globalSpeedHistory |-> << >>,
   lastGlobalUpdateTime |-> Epoch,
   lastGlobalBytes |-> 0]

\* the sampling variables hold the tracker record tr, last touched at time t
SamplingIs(tr, t) ==
  /\ now = t
  /\ partSpeeds = tr.partSpeeds
  /\ partLastUpdateTime = tr.partLastUpdateTime
  /\ partLastBytes = tr.partLastBytes
  /\ partSpeedHistory = tr.partSpeedHistory
  /\ globalSpeedHistory = tr.globalSpeedHistory
  /\ lastGlobalUpdateTime = tr.lastGlobalUpdateTime
  /\ lastGlobalBytes = tr.lastGlobalBytes
  /\ etaInfo = NoEta
  /\ updates = 0

\* ------------------------------------------------------------------- Init
Init ==
  /\ objSize \in 0 .. MaxSize
  /\ concurrency \in 1 .. MaxN
  /\ partFiles = [i \in Segs |-> Absent]
  /\ finalFile = Absent
  /\ supPc = "init"
  /\ nextSpawn = 0
  /\ fileSize = 0
  /\ parts = [i \in Segs |-> -1]
  /\ mergeIdx = 0
  /\ mergeRead = FALSE
  /\ wsBuf = << >>
  /\ pc = [i \in Segs |-> "idle"]
  /\ resumeBytes = [i \in Segs |-> 0]
  /\ isValid = [i \in Segs |-> TRUE]
  /\ req = [i \in Segs |-> NoReq]
  /\ session = [i \in Segs |-> 0]
  /\ responseContentLength = [i \in Segs |-> -1]
  /\ writeStreams = [i \in Segs |-> 0]
  /\ downloadedPerPart = [i \in Segs |-> 0]
  /\ partStatus = [i \in Segs |-> St("pending", 0)]
  /\ partRetryCount = [i \in Segs |-> 0]
  /\ partExpectedSizes = [i \in Segs |-> 0]
  /\ progressInterval = FALSE
  /\ faults = 0
  /\ run = 1
  /\ kills = 0
  /\ afterSuccess = FALSE
  /\ afterClean = FALSE
  /\ startComplete = FALSE
  /\ cleanFailed = {}
  /\ fetched = [i \in Segs |-> 0]
  /\ loggerOpen = TRUE
  /\ wroteAfterEnd = FALSE
  /\ reported = FALSE
  /\ SamplingIs(Constructed, Epoch)

\* --------------------------------------------------------------- supervisor
Budget == MaxFaults - faults

\* the pre-scan loop of download(): one inspection of every scratch file
PreScan(errs) ==
  [i \in Segs |->
     GetPartResumeInfo(partFiles[i], ExpectedSize(i, objSize, concurrency),
                       errs[i])]

PreScanStatus(info) ==
  IF info.isComplete THEN St("completed (already exists)", 0)
  ELSE IF info.resumeBytes > 0 THEN St("resuming", 0)
  ELSE St("pending", 0)

\* the worker slot i after attempt result a
SlotPrimed(i, a, files, downloaded, status, retries) ==
  /\ partFiles' = [files EXCEPT ![i] = a.file]
  /\ pc' = [pc EXCEPT ![i] = a.pc]
  /\ resumeBytes' = [resumeBytes EXCEPT ![i] = a.resumeBytes]
  /\ isValid' = [isValid EXCEPT ![i] = a.isValid]
  /\ req' = [req EXCEPT ![i] = a.req]
  /\ session' = [session EXCEPT ![i] = 0]
  /\ responseContentLength' = [responseContentLength EXCEPT ![i] = -1]
  /\ writeStreams' = writeStreams
  /\ downloadedPerPart' = [downloaded EXCEPT ![i] = a.downloaded]
  /\ partStatus' = UpdatePartStatus(status, i, a.status)
  /\ partRetryCount' = [retries EXCEPT ![i] = a.retries]
  /\ parts' = IF a.pc = "done" THEN [parts EXCEPT ![i] = i] ELSE parts

\* head succeeds: tracker construction, pre-scan, spawn of worker 0
HeadOk ==
  /\ supPc = "init"
  /\ \E errs \in [Segs -> FsErrors], e0 \in FsErrors :
       LET S == objSize
           N == concurrency
           scanned == PreScan(errs)
           files == [i \in Segs |-> scanned[i].file]
           cost == SumTo([i \in Segs |-> ErrCost(errs[i])], N - 1) + ErrCost(e0)
           a == Attempt(files[0], PartStart(0, S, N), PartEnd(0, S, N), 0,
                        scanned[0].resumeBytes, PreScanStatus(scanned[0]), e0)
       IN  /\ \A i \in Segs :
                errs[i] \in FsErrorsFor(partFiles[i], ExpectedSize(i, S, N))
           /\ e0 \in FsErrorsFor(files[0], ExpectedSize(0, S, N))
           /\ cost <= Budget
           /\ faults' = faults + cost
           /\ fileSize' = S
           /\ partExpectedSizes' = [i \in Segs |-> ExpectedSize(i, S, N)]
           /\ SlotPrimed(0, a, files,
                         [i \in Segs |-> scanned[i].resumeBytes],
                         [i \in Segs |-> PreScanStatus(scanned[i])],
                         [i \in Segs |-> 0])
           /\ nextSpawn' = 1
           /\ supPc' = IF N = 1 THEN "awaiting" ELSE "spawning"
           /\ progressInterval' = (N = 1)
  /\ UNCHANGED <<inputs, finalFile, mergeIdx, mergeRead, wsBuf>>
  /\ UNCHANGED <<histRun, fetched>>
  /\ UNCHANGED logging
  /\ UNCHANGED sampling

\* head fails: the catch of download() logs, reports (no tracker yet), rethrows
HeadFail ==
  /\ supPc = "init"
  /\ Budget >= 1
  /\ faults' = faults + 1
  /\ supPc' = "rejected"
  /\ UNCHANGED <<inputs, disk, nextSpawn, fileSize, parts, mergeIdx, mergeRead,
                 wsBuf, worker, tracker>>
  /\ UNCHANGED <<histRun, fetched>>
  /\ loggerOpen' = FALSE
  /\ UNCHANGED <<wroteAfterEnd, reported>>
  /\ UNCHANGED sampling

\* after the 100 ms stagger: spawn of the next worker
SpawnNext ==
  /\ supPc = "spawning"
  /\ LET i == nextSpawn
         N == concurrency
     IN \E e \in FsErrorsFor(partFiles[i], ExpectedSize(i, fileSize, N)) :
          LET a == Attempt(partFiles[i], PartStart(i, fileSize, N),
                           PartEnd(i, fileSize, N), partRetryCount[i],
                           downloadedPerPart[i], partStatus[i], e)
          IN  /\ ErrCost(e) <= Budget
              /\ faults' = faults + ErrCost(e)
              /\ SlotPrimed(i, a, partFiles, downloadedPerPart, partStatus,
                            partRetryCount)
              /\ nextSpawn' = i + 1
              /\ supPc' = IF i = N - 1 THEN "awaiting" ELSE "spawning"
              /\ progressInterval' = (i = N - 1)
  /\ UNCHANGED <<inputs, finalFile, fileSize, mergeIdx, mergeRead, wsBuf,
                 partExpectedSizes>>
  /\ UNCHANGED <<histRun, fetched>>
  /\ UNCHANGED logging
  /\ UNCHANGED sampling

\* ------------------------------------------------------------------ worker
\* the 1 s backoff is over: next pass of the loop
Retry(i) ==
  /\ pc[i] = "backoff"
  /\ \E e \in FsErrorsFor(partFiles[i], partExpectedSizes[i]) :
       LET N == concurrency
           a == Attempt(partFiles[i], PartStart(i, fileSize, N),
                        PartEnd(i, fileSize, N), partRetryCount[i],
                        downloadedPerPart[i], partStatus[i], e)
       IN  /\ ErrCost(e) <= Budget
           /\ faults' = faults + ErrCost(e)
           /\ SlotPrimed(i, a, partFiles, downloadedPerPart, partStatus,
                         partRetryCount)
  /\ UNCHANGED <<inputs, finalFile, supPc, nextSpawn, fileSize, mergeIdx,
                 mergeRead, wsBuf, partExpectedSizes, progressInterval>>
  /\ UNCHANGED <<histRun, fetched>>
  /\ UNCHANGED logging
  /\ UNCHANGED sampling

\* s3Client.send rejects
SendFail(i) ==
  /\ pc[i] = "sending"
  /\ Budget >= 1
  /\ faults' = faults + 1
  /\ pc' = [pc EXCEPT ![i] = "failed"]
  /\ UNCHANGED <<inputs, disk, sup, resumeBytes, isValid, req, session,
                 responseContentLength, writeStreams, tracker>>
  /\ UNCHANGED <<histRun, fetched>>
  /\ UNCHANGED logging
  /\ UNCHANGED sampling

NoHeader == -1

\* parseInt(response.ContentLength || "0", 10)
ParseContentLength(h) == IF h = NoHeader THEN 0 ELSE h

\* s3Client.send resolves with ContentLength header h (a header that does not
\* announce the requested bytes is a fault of the transport, which the code
\* only logs): progress is set to the resume baseline and the scratch file is
\* opened
SendOk(i, h) ==
  /\ pc[i] = "sending"
  /\ LET remainingBytes == req[i].end - req[i].start + 1
         cost == IF ParseContentLength(h) # remainingBytes THEN 1 ELSE 0
     IN  /\ h \in {NoHeader, remainingBytes, remainingBytes - 1}
         /\ cost <= Budget
         /\ faults' = faults + cost
  /\ responseContentLength' =
       [responseContentLength EXCEPT ![i] = ParseContentLength(h)]
  /\ writeStreams' = [writeStreams EXCEPT ![i] = @ + 1]
  /\ pc' = [pc EXCEPT ![i] = "streaming"]
  /\ downloadedPerPart' = [downloadedPerPart EXCEPT ![i] = resumeBytes[i]]
  /\ session' = [session EXCEPT ![i] = 0]
  /\ partFiles' = [partFiles EXCEPT
                     ![i] = CreateWriteStream(@, OpenFlag(resumeBytes[i]))]
  /\ UNCHANGED <<inputs, finalFile, sup, resumeBytes, isValid, req>>
  /\ UNCHANGED <<partStatus, partRetryCount, partExpectedSizes, progressInterval>>
  /\ UNCHANGED <<histRun, fetched>>
  /\ UNCHANGED logging
  /\ UNCHANGED sampling

\* a chunk of the body arrives and is written to the scratch file; sample
\* tells whether more than 1000 ms passed since the last progress sample.
\* The transport serves the object's bytes from the requested offset on; a
\* byte past the requested end is a fault of the transport.
Chunk(i, sample) ==
  /\ pc[i] = "streaming"
  /\ LET offset == req[i].start + session[i]
         over == IF offset > req[i].end THEN 1 ELSE 0
     IN  /\ offset < objSize
         /\ over <= Budget
         /\ faults' = faults + over
         /\ partFiles' = [partFiles EXCEPT ![i] = File(Append(@.data, offset))]
  /\ session' = [session EXCEPT ![i] = @ + 1]
  /\ fetched' = [fetched EXCEPT ![i] = @ + 1]
  /\ downloadedPerPart' =
       IF sample
         THEN [downloadedPerPart EXCEPT ![i] = resumeBytes[i] + session[i] + 1]
         ELSE downloadedPerPart
  /\ UNCHANGED <<inputs, finalFile, sup, pc, resumeBytes, isValid, req,
                 responseContentLength, writeStreams>>
  /\ UNCHANGED <<partStatus, partRetryCount, partExpectedSizes, progressInterval>>
  /\ UNCHANGED histRun
  /\ UNCHANGED logging
  /\ UNCHANGED sampling

\* the body emits 'error': the handler records progress and status, and the
\* pipeline rejects
StreamError(i) ==
  /\ pc[i] = "streaming"
  /\ Budget >= 1
  /\ faults' = faults + 1
  /\ downloadedPerPart' =
       [downloadedPerPart EXCEPT ![i] = resumeBytes[i] + session[i]]
  /\ partStatus' = UpdatePartStatus(partStatus, i, St("stream error", 0))
  /\ pc' = [pc EXCEPT ![i] = "failed"]
  /\ responseContentLength' = [responseContentLength EXCEPT ![i] = -1]
  /\ writeStreams' = [writeStreams EXCEPT ![i] = AutoClose(@)]
  /\ UNCHANGED <<inputs, disk, sup, resumeBytes, isValid, req, session>>
  /\ UNCHANGED <<partRetryCount, partExpectedSizes, progressInterval>>
  /\ UNCHANGED <<histRun, fetched>>
  /\ UNCHANGED logging
  /\ UNCHANGED sampling

SizeCheckSkipped(finalSize, expectedSize) == TRUE

\* finalSize !== expectedSize is the only way to fail after the stream ended
SizeCheck(finalSize, expectedSize) == finalSize = expectedSize

\* the body ends normally (before the requested end: a premature EOF of the
\* transport, the same fault as the short ContentLength that announced it);
\* post-stream length check
StreamEnd(i) ==
  /\ pc[i] = "streaming"
  /\ LET short == IF /\ req[i].start + session[i] <= req[i].end
                       /\ req[i].start + session[i] < objSize
                       /\ responseContentLength[i] = req[i].end - req[i].start + 1
                    THEN 1 ELSE 0
     IN  /\ short <= Budget
         /\ faults' = faults + short
  /\ responseContentLength' = [responseContentLength EXCEPT ![i] = -1]
  /\ writeStreams' = [writeStreams EXCEPT ![i] = AutoClose(@)]
  /\ IF SizeCheck(Size(partFiles[i]), partExpectedSizes[i])
       THEN /\ partStatus' = UpdatePartStatus(partStatus, i, St("completed", 0))
            /\ downloadedPerPart' =
                 [downloadedPerPart EXCEPT ![i] = partExpectedSizes[i]]
            /\ pc' = [pc EXCEPT ![i] = "done"]
            /\ parts' = [parts EXCEPT ![i] = i]
       ELSE /\ pc' = [pc EXCEPT ![i] = "failed"]
            /\ UNCHANGED <<partStatus, downloadedPerPart, parts>>
  /\ UNCHANGED <<inputs, disk, supPc, nextSpawn, fileSize, mergeIdx, mergeRead,
                 wsBuf, resumeBytes, isValid, req, session>>
  /\ UNCHANGED <<partRetryCount, partExpectedSizes, progressInterval>>
  /\ UNCHANGED <<histRun, fetched>>
  /\ UNCHANGED logging
  /\ UNCHANGED sampling

CatchFileTruncates(f, expectedSize, e1, e2) == IF f.exists THEN File(<< >>) ELSE f

\* the scratch file after the two inspections of the catch block
CatchFile(f, expectedSize, e1, e2) ==
  GetPartResumeInfo(GetPartResumeInfo(f, expectedSize, e1).file,
                    expectedSize, e2).file

\* the catch block of downloadRange up to the 1 s sleep
Catch(i) ==
  /\ pc[i] = "failed"
  /\ \E e1 \in FsErrorsFor(partFiles[i], partExpectedSizes[i]) :
       LET info1 == GetPartResumeInfo(partFiles[i], partExpectedSizes[i], e1)
       IN  \E e2 \in FsErrorsFor(info1.file, partExpectedSizes[i]) :
             /\ ErrCost(e1) + ErrCost(e2) <= Budget
             /\ faults' = faults + ErrCost(e1) + ErrCost(e2)
             /\ downloadedPerPart' =
                  [downloadedPerPart EXCEPT ![i] = info1.resumeBytes]
             /\ partFiles' =
                  [partFiles EXCEPT
                     ![i] = CatchFile(@, partExpectedSizes[i], e1, e2)]
  /\ partStatus' = UpdatePartStatus(partStatus, i,
                                  St("retrying", partRetryCount[i]))
  /\ pc' = [pc EXCEPT ![i] = "backoff"]
  /\ resumeBytes' = [resumeBytes EXCEPT ![i] = 0]
  /\ isValid' = [isValid EXCEPT ![i] = TRUE]
  /\ req' = [req EXCEPT ![i] = NoReq]
  /\ session' = [session EXCEPT ![i] = 0]
  /\ responseContentLength' = [responseContentLength EXCEPT ![i] = -1]
  /\ writeStreams' = writeStreams
  /\ UNCHANGED <<inputs, finalFile, sup>>
  /\ UNCHANGED <<partRetryCount, partExpectedSizes, progressInterval>>
  /\ UNCHANGED <<histRun, fetched>>
  /\ UNCHANGED logging
  /\ UNCHANGED sampling

\* --------------------------------------------------------------- assembler
\* FileIntegrityChecker.verify: exists and sizeMatch
Verify(f, expectedSize) == f.exists /\ Size(f) = expectedSize

\* logFinalStatus: one inspection of every scratch file
LogFinalStatus(files) ==
  [i \in Segs |->
     GetPartResumeInfo(files[i],
                       IF partExpectedSizes[i] # 0 THEN partExpectedSizes[i]
                       ELSE fileSize \div concurrency,
                       "none").file]

PartsVerifiedSkipped == TRUE

\* the verification loop of mergeFiles
PartsVerified ==
  \A i \in Segs :
    parts[i] \in Segs /\ Verify(partFiles[parts[i]], partExpectedSizes[i])

PromiseAllRace == \E i \in Segs : pc[i] = "done"

\* await Promise.all(downloadPromises): every worker has returned (none ever
\* rejects)
PromiseAll == \A i \in Segs : pc[i] = "done"

\* Promise.all resolves: the display stops and mergeFiles verifies the parts;
\* a failure is thrown to the catch of download(), otherwise the final file
\* is opened with flag "w"
AllDone ==
  /\ supPc = "awaiting"
  /\ PromiseAll
  /\ progressInterval' = FALSE
  /\ IF PartsVerified
       THEN /\ supPc' = "merging"
            /\ finalFile' = File(<< >>)
            /\ UNCHANGED partFiles
       ELSE /\ supPc' = "rejected"
            /\ partFiles' = LogFinalStatus(partFiles)
            /\ UNCHANGED finalFile
  /\ mergeIdx' = 0
  /\ mergeRead' = FALSE
  /\ wsBuf' = << >>
  /\ UNCHANGED <<inputs, nextSpawn, fileSize, parts, worker>>
  /\ UNCHANGED <<downloadedPerPart, partStatus, partRetryCount, partExpectedSizes>>
  /\ UNCHANGED hist
  /\ loggerOpen' = PartsVerified
  /\ reported' = ~PartsVerified
  /\ UNCHANGED wroteAfterEnd
  /\ UNCHANGED sampling

MergeOrderReversed(k) == concurrency - 1 - k

\* for (let i = 0; i < parts.length; i++): the k-th part that is copied
MergeOrder(k) == k

\* the read stream of part mergeIdx hands its data to the final write stream
MergeData ==
  /\ supPc = "merging"
  /\ ~mergeRead
  /\ mergeRead' = TRUE
  /\ wsBuf' = wsBuf \o partFiles[parts[MergeOrder(mergeIdx)]].data
  /\ UNCHANGED <<inputs, disk, supPc, nextSpawn, fileSize, parts, mergeIdx>>
  /\ UNCHANGED <<worker, tracker, hist>>
  /\ UNCHANGED logging
  /\ UNCHANGED sampling

\* the final write stream writes what it has accepted; it does so on its own,
\* whatever download() is doing (close() ends the stream, it does not wait)
Flush ==
  /\ wsBuf # << >>
  /\ finalFile' = File(finalFile.data \o wsBuf)
  /\ wsBuf' = << >>
  /\ UNCHANGED <<inputs, partFiles, supPc, nextSpawn, fileSize, parts, mergeIdx,
                 mergeRead>>
  /\ UNCHANGED <<worker, tracker, hist>>
  /\ UNCHANGED logging
  /\ UNCHANGED sampling

CleanupKeepsAll(files, failed) == files

CleanupStopsAtFailure(files, failed) ==
  [i \in Segs |-> IF \E j \in failed : j <= i THEN files[i] ELSE Absent]

\* parts.forEach(unlinkSync), failed: the files whose unlink throws
Cleanup(files, failed) ==
  [i \in Segs |-> IF i \in failed THEN files[i] ELSE Absent]

FinalVerifiedSkipped == TRUE

\* the final verification of mergeFiles
FinalVerified == Verify(finalFile, fileSize)

\* the read stream of part mergeIdx ends: next part, or close, final
\* verification and cleanup
MergeEnd ==
  /\ supPc = "merging"
  /\ mergeRead
  /\ IF mergeIdx < concurrency - 1
       THEN /\ mergeIdx' = mergeIdx + 1
            /\ mergeRead' = FALSE
            /\ UNCHANGED <<supPc, partFiles, faults, cleanFailed>>
       ELSE /\ UNCHANGED <<mergeIdx, mergeRead>>
            /\ IF FinalVerified
                 THEN /\ supPc' = "returned"
                      /\ \E failed \in SUBSET {parts[i] : i \in Segs} :
                           /\ Cardinality(failed) <= Budget
                           /\ faults' = faults + Cardinality(failed)
                           /\ cleanFailed' = failed
                           /\ partFiles' = Cleanup(partFiles, failed)
                 ELSE /\ supPc' = "rejected"
                      /\ partFiles' = LogFinalStatus(partFiles)
                      /\ UNCHANGED <<faults, cleanFailed>>
  /\ UNCHANGED <<inputs, finalFile, nextSpawn, fileSize, parts, wsBuf>>
  /\ UNCHANGED <<worker, tracker>>
  /\ UNCHANGED <<run, kills, afterSuccess, afterClean, startComplete, fetched>>
  /\ loggerOpen' = (mergeIdx < concurrency - 1)
  /\ reported' = (mergeIdx = concurrency - 1 /\ ~FinalVerified)
  /\ UNCHANGED wroteAfterEnd
  /\ UNCHANGED sampling

\* ProgressTracker.getTotalRetries
GetTotalRetries == SumTo(partRetryCount, concurrency - 1)

\* ------------------------------------------------------------- environment
Finished == supPc \in {"returned", "rejected"}

\* something outside the program shortens or removes the scratch file of a
\* completed segment just before the assembler looks at it
Corrupt(i, remove) ==
  /\ supPc = "awaiting"
  /\ \A j \in Segs : pc[j] = "done"
  /\ partFiles[i].exists
  /\ remove \/ Size(partFiles[i]) > 0
  /\ Budget >= 1
  /\ faults' = faults + 1
  /\ partFiles' =
       [partFiles EXCEPT
          ![i] = IF remove THEN Absent
                 ELSE File(SubSeq(@.data, 1, Size(@) - 1))]
  /\ UNCHANGED <<inputs, finalFile, sup, worker, tracker>>
  /\ UNCHANGED <<histRun, fetched>>
  /\ UNCHANGED logging
  /\ UNCHANGED sampling

\* the process ends (it finished, or it is killed at this point) and is
\* started again with the same inputs: memory is lost, the disk is kept
Restart ==
  /\ run < MaxRuns
  /\ run' = run + 1
  /\ kills' = IF Finished THEN kills ELSE kills + 1
  /\ afterSuccess' = (supPc = "returned")
  /\ afterClean' = (supPc = "returned" /\ \A i \in Segs : ~partFiles[i].exists)
  /\ startComplete' =
       \A i \in Segs :
         /\ partFiles[i].exists
         /\ Size(partFiles[i]) = ExpectedSize(i, objSize, concurrency)
  /\ supPc' = "init"
  /\ nextSpawn' = 0
  /\ fileSize' = 0
  /\ parts' = [i \in Segs |-> -1]
  /\ mergeIdx' = 0
  /\ mergeRead' = FALSE
  /\ wsBuf' = << >>
  /\ pc' = [i \in Segs |-> "idle"]
  /\ resumeBytes' = [i \in Segs |-> 0]
  /\ isValid' = [i \in Segs |-> TRUE]
  /\ req' = [i \in Segs |-> NoReq]
  /\ session' = [i \in Segs |-> 0]
  /\ responseContentLength' = [i \in Segs |-> -1]
  /\ writeStreams' = [i \in Segs |-> 0]
  /\ downloadedPerPart' = [i \in Segs |-> 0]
  /\ partStatus' = [i \in Segs |-> St("pending", 0)]
  /\ partRetryCount' = [i \in Segs |-> 0]
  /\ partExpectedSizes' = [i \in Segs |-> 0]
  /\ progressInterval' = FALSE
  /\ cleanFailed' = {}
  /\ fetched' = [i \in Segs |-> 0]
  /\ UNCHANGED <<inputs, disk, faults>>
  /\ loggerOpen' = TRUE
  /\ wroteAfterEnd' = FALSE
  /\ reported' = FALSE
  /\ UNCHANGED sampling

InterruptReportWipes(files) == [i \in Segs |-> Absent]

\* the SIGINT handler's walk over partStatus: one inspection of every scratch
\* file (nothing is inspected while progressTracker is null)
InterruptReport(files) ==
  IF supPc = "init" THEN files
  ELSE [i \in Segs |->
          GetPartResumeInfo(files[i],
                            IF partExpectedSizes[i] # 0 THEN partExpectedSizes[i]
                            ELSE fileSize \div concurrency,
                            "none").file]

\* SIGINT while download() is pending: the handler stops the display, reports
\* every segment and calls process.exit(0); what the streams have not written
\* is lost with the process
Sigint ==
  /\ supPc \notin {"returned", "rejected", "exited"}
  /\ partFiles' = InterruptReport(partFiles)
  /\ progressInterval' = FALSE
  /\ supPc' = "exited"
  /\ nextSpawn' = 0
  /\ fileSize' = 0
  /\ parts' = [i \in Segs |-> -1]
  /\ mergeIdx' = 0
  /\ mergeRead' = FALSE
  /\ wsBuf' = << >>
  /\ pc' = [i \in Segs |-> "idle"]
  /\ resumeBytes' = [i \in Segs |-> 0]
  /\ isValid' = [i \in Segs |-> TRUE]
  /\ req' = [i \in Segs |-> NoReq]
  /\ session' = [i \in Segs |-> 0]
  /\ responseContentLength' = [i \in Segs |-> -1]
  /\ writeStreams' = [i \in Segs |-> 0]
  /\ downloadedPerPart' = [i \in Segs |-> 0]
  /\ partStatus' = [i \in Segs |-> St("pending", 0)]
  /\ partRetryCount' = [i \in Segs |-> 0]
  /\ partExpectedSizes' = [i \in Segs |-> 0]
  /\ fetched' = [i \in Segs |-> 0]
  /\ UNCHANGED <<inputs, finalFile, faults, histRun>>
  /\ loggerOpen' = FALSE
  /\ UNCHANGED <<wroteAfterEnd, reported>>
  /\ UNCHANGED sampling

\* download() has settled and the caller calls download(key) again on the
\* same instance (headOk: the head request succeeds). The first log line of
\* the call, logger.info after getFileSize or logger.error in the catch, is
\* written to the logStream that the finally of the first call has ended; the
\* stream emits 'error', nothing listens to it, and the process dies at the
\* next tick, after the synchronous pre-scan (or, when the head request
\* failed, after logFinalStatus, which walks the tracker of the first call if
\* there is one)
DownloadAgain(headOk) ==
  /\ Finished
  /\ ~loggerOpen
  /\ wroteAfterEnd' = TRUE
  /\ loggerOpen' = FALSE
  /\ UNCHANGED reported
  /\ partFiles' = IF headOk
                    THEN [i \in Segs |-> PreScan([j \in Segs |-> "none"])[i].file]
                    ELSE IF \A i \in Segs : pc[i] = "idle" THEN partFiles
                    ELSE LogFinalStatus(partFiles)
  /\ progressInterval' = FALSE
  /\ supPc' = "exited"
  /\ nextSpawn' = 0
  /\ fileSize' = 0
  /\ parts' = [i \in Segs |-> -1]
  /\ mergeIdx' = 0
  /\ mergeRead' = FALSE
  /\ wsBuf' = << >>
  /\ pc' = [i \in Segs |-> "idle"]
  /\ resumeBytes' = [i \in Segs |-> 0]
  /\ isValid' = [i \in Segs |-> TRUE]
  /\ req' = [i \in Segs |-> NoReq]
  /\ session' = [i \in Segs |-> 0]
  /\ responseContentLength' = [i \in Segs |-> -1]
  /\ writeStreams' = [i \in Segs |-> 0]
  /\ downloadedPerPart' = [i \in Segs |-> 0]
  /\ partStatus' = [i \in Segs |-> St("pending", 0)]
  /\ partRetryCount' = [i \in Segs |-> 0]
  /\ partExpectedSizes' = [i \in Segs |-> 0]
  /\ fetched' = [i \in Segs |-> 0]
  /\ UNCHANGED <<inputs, finalFile, faults, histRun>>
  /\ UNCHANGED sampling

Next ==
  \/ HeadOk
  \/ HeadFail
  \/ SpawnNext
  \/ \E i \in Segs : Retry(i)
  \/ \E i \in Segs : SendFail(i)
  \/ \E i \in Segs, h \in -1 .. MaxSize : SendOk(i, h)
  \/ \E i \in Segs, sample \in BOOLEAN : Chunk(i, sample)
  \/ \E i \in Segs : StreamError(i)
  \/ \E i \in Segs : StreamEnd(i)
  \/ \E i \in Segs : Catch(i)
  \/ \E i \in Segs, remove \in BOOLEAN : Corrupt(i, remove)
  \/ AllDone
  \/ MergeData
  \/ MergeEnd
  \/ Flush
  \/ Sigint
  \/ \E headOk \in BOOLEAN : DownloadAgain(headOk)
  \/ Restart

Spec == Init /\ [][Next]_vars

\* ------------------------------------------- the plan builder on its own
InitPlan ==
  /\ objSize \in 0 .. PlanMaxSize
  /\ concurrency \in 1 .. PlanMaxN
  /\ partFiles = [i \in Segs |-> Absent]
  /\ finalFile = Absent
  /\ supPc = "init"
  /\ nextSpawn = 0
  /\ fileSize = 0
  /\ parts = [i \in Segs |-> -1]
  /\ mergeIdx = 0
  /\ mergeRead = FALSE
  /\ wsBuf = << >>
  /\ pc = [i \in Segs |-> "idle"]
  /\ resumeBytes = [i \in Segs |-> 0]
  /\ isValid = [i \in Segs |-> TRUE]
  /\ req = [i \in Segs |-> NoReq]
  /\ session = [i \in Segs |-> 0]
  /\ responseContentLength = [i \in Segs |-> -1]
  /\ writeStreams = [i \in Segs |-> 0]
  /\ downloadedPerPart = [i \in Segs |-> 0]
  /\ partStatus = [i \in Segs |-> St("pending", 0)]
  /\ partRetryCount = [i \in Segs |-> 0]
  /\ partExpectedSizes = [i \in Segs |-> 0]
  /\ progressInterval = FALSE
  /\ faults = 0
  /\ run = 1
  /\ kills = 0
  /\ afterSuccess = FALSE
  /\ afterClean = FALSE
  /\ startComplete = FALSE
  /\ cleanFailed = {}
  /\ fetched = [i \in Segs |-> 0]
  /\ loggerOpen = TRUE
  /\ wroteAfterEnd = FALSE
  /\ reported = FALSE
  /\ SamplingIs(Constructed, Epoch)

\* download() up to the end of its pre-scan loop, for a wide range of (S, N)
PlanSpec == InitPlan /\ [][HeadOk]_vars

\* ------------------------------------- one run under the event loop's fairness
\* the steps of the downloadRange call of segment i
WorkerStep(i) ==
  \/ Retry(i)
  \/ SendFail(i)
  \/ \E h \in -1 .. MaxSize : SendOk(i, h)
  \/ \E sample \in BOOLEAN : Chunk(i, sample)
  \/ StreamError(i)
  \/ StreamEnd(i)
  \/ Catch(i)

\* the steps of download() and of mergeFiles
SupervisorStep ==
  \/ HeadOk
  \/ HeadFail
  \/ SpawnNext
  \/ AllDone
  \/ MergeData
  \/ MergeEnd

\* one run of the process that nobody kills or starts again, on a disk that
\* nothing else touches
LiveNext ==
  \/ SupervisorStep
  \/ \E i \in Segs : WorkerStep(i)
  \/ Flush

\* the event loop runs every callback that is ready: timers (the stagger and
\* the backoff), settled promises and stream events; the final write stream
\* writes what it has accepted
LiveSpec ==
  /\ Init
  /\ [][LiveNext]_vars
  /\ WF_vars(SupervisorStep)
  /\ \A i \in 0 .. (MaxN - 1) : WF_vars(i \in Segs /\ WorkerStep(i))
  /\ WF_vars(Flush)

\* ------------------------------------------- the tracker's sampling, alone
\* The workers and the display timer call the tracker with the clock
\* advancing between the calls; the arguments and the clock are inputs.

\* the time that passes before a call of updatePartProgress, in ms
TimeSteps == {0, GlobalUpdateMs, GlobalWindowMs \div 2}

\* the time that passes before a display, in ms
DisplayDelays == {0, RecentThreshold}

\* the calls of updatePartProgress by a worker: at the start of an attempt
\* that resumes from nothing, by the data handler with the speed it
\* measured, and by the catch block with what the scratch file holds
CallKinds == {"attempt", "data", "catch"}

\* the downloaded argument of the call: zero, or one byte more than before
Downloaded(i, kind) ==
  IF kind = "attempt" THEN 0 ELSE downloadedPerPart[i] + 1

\* the speed argument of the call: the data handler passes its measurement,
\* the other callers leave the default
SpeedArgument(kind) == IF kind = "data" THEN SpeedOf(1, 1000) ELSE RZero

\* the time between two progress reports of the data handler during the
\* samples taken before the first state that is followed
WarmStepMs == 2000

\* the tracker after k progress reports of part 0, one byte each
RECURSIVE Warmed(_)
Warmed(k) ==
  IF k = 0 THEN Constructed
  ELSE UpdatePartProgress(Warmed(k - 1), 0, k, SpeedOf(1, WarmStepMs),
                          Epoch + k * WarmStepMs)

\* a worker calls updatePartProgress for part i, dt ms after the last call
\* of the tracker
UpdatePartProgressCall(i, kind, dt) ==
  /\ updates < TrackMaxCalls
  /\ Downloaded(i, kind) <= ExpectedSize(i, objSize, concurrency)
  /\ LET tr == UpdatePartProgress(SamplingState, i, Downloaded(i, kind),
                                  SpeedArgument(kind), now + dt)
     IN  /\ downloadedPerPart' = tr.downloadedPerPart
         /\ partSpeeds' = tr.partSpeeds
         /\ partLastUpdateTime' = tr.partLastUpdateTime
         /\ partLastBytes' = tr.partLastBytes
         /\ partSpeedHistory' = tr.partSpeedHistory
         /\ globalSpeedHistory' = tr.globalSpeedHistory
         /\ lastGlobalUpdateTime' = tr.lastGlobalUpdateTime
         /\ lastGlobalBytes' = tr.lastGlobalBytes
  /\ now' = now + dt
  /\ etaInfo' = NoEta
  /\ updates' = updates + 1
  /\ UNCHANGED <<inputs, disk, sup, worker, partStatus, partRetryCount,
                 partExpectedSizes, progressInterval, hist, logging>>

\* the display timer fires delay ms after the last call of the tracker (one
\* display is followed between two samples)
UpdateDisplay(delay) ==
  /\ etaInfo = NoEta
  /\ now' = now + delay
  /\ etaInfo' = CalculateETA(SamplingState, now + delay, fileSize)
  /\ UNCHANGED <<inputs, disk, sup, worker, tracker, hist, logging,
                 partSpeeds, partLastUpdateTime, partLastBytes,
                 partSpeedHistory, globalSpeedHistory, lastGlobalUpdateTime,
                 lastGlobalBytes, updates>>

TrackNext ==
  \/ \E i \in Segs, kind \in CallKinds, dt \in TimeSteps :
       UpdatePartProgressCall(i, kind, dt)
  \/ \E delay \in DisplayDelays : UpdateDisplay(delay)

\* a tracker for an object of TrackSize bytes, freshly constructed or after
\* the data handler of part 0 reported SpeedHistorySize times
InitTrack ==
  /\ objSize = TrackSize
  /\ concurrency \in 1 .. MaxN
  /\ partFiles = [i \in Segs |-> Absent]
  /\ finalFile = Absent
  /\ supPc = "init"
  /\ nextSpawn = 0
  /\ fileSize = objSize
  /\ parts = [i \in Segs |-> -1]
  /\ mergeIdx = 0
  /\ mergeRead = FALSE
  /\ wsBuf = << >>
  /\ pc = [i \in Segs |-> "idle"]
  /\ resumeBytes = [i \in Segs |-> 0]
  /\ isValid = [i \in Segs |-> TRUE]
  /\ req = [i \in Segs |-> NoReq]
  /\ session = [i \in Segs |-> 0]
  /\ responseContentLength = [i \in Segs |-> -1]
  /\ writeStreams = [i \in Segs |-> 0]
  /\ partStatus = [i \in Segs |-> St("pending", 0)]
  /\ partRetryCount = [i \in Segs |-> 0]
  /\ partExpectedSizes = [i \in Segs |-> 0]
  /\ progressInterval = FALSE
  /\ faults = 0
  /\ run = 1
  /\ kills = 0
  /\ afterSuccess = FALSE
  /\ afterClean = FALSE
  /\ startComplete = FALSE
  /\ cleanFailed = {}
  /\ fetched = [i \in Segs |-> 0]
  /\ loggerOpen = TRUE
  /\ wroteAfterEnd = FALSE
  /\ reported = FALSE
  /\ \E k \in {0, SpeedHistorySize} :
       /\ downloadedPerPart = Warmed(k).downloadedPerPart
       /\ SamplingIs(Warmed(k), Epoch + k * WarmStepMs)

TrackerSpec == InitTrack /\ [][TrackNext]_vars

\* ------------------------------------------------------------------ properties
\* the segment plan of the run, as download() computes it
Start(i) == PartStart(i, objSize, concurrency)
End(i) == PartEnd(i, objSize, concurrency)
L(i) == End(i) - Start(i) + 1

\* C1: for every S >= 0 and N >= 1 the N segments of download() are
\* contiguous, pairwise disjoint, of length >= 0, cover [0, S) and their
\* lengths sum to S.
C1_PlanCoversObject ==
  supPc # "init" =>
    /\ fileSize = objSize
    /\ Start(0) = 0
    /\ End(concurrency - 1) = objSize - 1
    /\ \A i \in Segs : i + 1 \in Segs => Start(i + 1) = End(i) + 1
    /\ \A i, j \in Segs : i # j => (Start(i) .. End(i)) \cap (Start(j) .. End(j)) = {}
    /\ \A i \in Segs : partExpectedSizes[i] = L(i) /\ L(i) >= 0
    /\ SumTo(partExpectedSizes, concurrency - 1) = objSize

\* the plan of a run whose last segment absorbs a remainder
C1_Witness ==
  /\ supPc # "init"
  /\ concurrency >= 3
  /\ objSize > concurrency
  /\ objSize % concurrency # 0
  /\ partExpectedSizes[concurrency - 1] > partExpectedSizes[0]

\* C2: whatever runs were killed before it, a run that returns leaves the
\* final file holding the object's bytes [0, S) in order, as an
\* uninterrupted run does.
C2_KillRestartSameFinal ==
  supPc = "returned" => finalFile = File(ObjectBytes(0, objSize))

\* a run returned after a killed run, on top of the bytes that run left
C2_Witness ==
  /\ supPc = "returned"
  /\ kills >= 1
  /\ \E i \in Segs : partStatus[i].kind = "completed" /\ fetched[i] < L(i)

\* C3: when download() returns, the final file exists with length S and, if
\* no unlink failed, no scratch file is left.
C3_SuccessLeavesFinalOnly ==
  supPc = "returned" =>
    /\ finalFile.exists
    /\ Size(finalFile) = objSize
    /\ cleanFailed = {} => \A i \in Segs : ~partFiles[i].exists

\* a two-segment run returned and deleted its scratch files
C3_Witness ==
  /\ supPc = "returned"
  /\ concurrency = 2
  /\ cleanFailed = {}
  /\ \A i \in Segs : fetched[i] = L(i) /\ L(i) > 0

\* C4 as claimed: the run after a successful run fetches no body byte and
\* leaves the same final file.
C4_SecondRunIsNoOp ==
  afterSuccess =>
    /\ \A i \in Segs : fetched[i] = 0
    /\ supPc = "returned" => finalFile = File(ObjectBytes(0, objSize))

\* C4 amended: the run after a successful run leaves the same final file when
\* it returns, and after a run that deleted every scratch file it has fetched
\* every segment again in full.
C4_SecondRunRefetches ==
  (afterSuccess /\ supPc = "returned") =>
    /\ finalFile = File(ObjectBytes(0, objSize))
    /\ afterClean => \A i \in Segs : fetched[i] >= L(i)

\* the second run returned after fetching the whole object again
C4_Witness ==
  /\ afterSuccess
  /\ afterClean
  /\ supPc = "returned"
  /\ objSize > 0
  /\ SumTo(fetched, concurrency - 1) = objSize

\* C5: while a fetch of segment i is outstanding its range is
\* [start_i + B_i, end_i], B_i being the length the inspector found on disk
\* at the start of the attempt (0 for an absent or just deleted file, and 0
\* when the inspection itself failed).
C5_RangeIsRemainder ==
  \A i \in Segs :
    /\ pc[i] \in {"sending", "streaming"} =>
         /\ req[i].start = Start(i) + resumeBytes[i]
         /\ req[i].end = End(i)
    /\ pc[i] = "sending" =>
         resumeBytes[i] = IF isValid[i] \/ ~partFiles[i].exists
                            THEN Size(partFiles[i]) ELSE 0

\* a second attempt asks only for the bytes the failed first one left out
C5_Witness ==
  \E i \in Segs :
    /\ pc[i] = "sending"
    /\ partRetryCount[i] = 2
    /\ resumeBytes[i] > 0
    /\ req[i].end - req[i].start + 1 = L(i) - Size(partFiles[i])

\* C6: the bytes of scratch file i are the object's bytes
\* [start_i, start_i + B_i), in every reachable state.
C6_ScratchIsObjectPrefix ==
  \A i \in Segs : partFiles[i].data = ObjectBytes(Start(i), Size(partFiles[i]))

\* bytes were appended by an attempt that resumed an earlier attempt's bytes
C6_Witness ==
  \E i \in Segs :
    /\ pc[i] = "streaming"
    /\ partRetryCount[i] >= 2
    /\ resumeBytes[i] > 0
    /\ session[i] > 0

\* C7: a failing attempt and its catch block leave the scratch file as it is
\* unless it is overlong, and the next attempt finds it as the failure left
\* it: a valid inspection resumes from the length on disk at the failure.
C7_FailurePreservesScratch ==
  [][\A i \in Segs :
       /\ (pc'[i] = "failed" /\ pc[i] # "failed") => partFiles'[i] = partFiles[i]
       /\ (pc[i] = "failed" /\ pc'[i] = "backoff") =>
            \/ partFiles'[i] = partFiles[i]
            \/ Size(partFiles[i]) > L(i)
       /\ (pc[i] = "backoff" /\ pc'[i] \in {"sending", "done"}) =>
            /\ partFiles'[i] = partFiles[i] \/ Size(partFiles[i]) > L(i)
            /\ isValid'[i] => resumeBytes'[i] = Size(partFiles[i])]_vars

\* a failed attempt is backing off with its partial bytes still on disk
C7_Witness ==
  \E i \in Segs :
    /\ pc[i] = "backoff"
    /\ partFiles[i].exists
    /\ Size(partFiles[i]) > 0
    /\ Size(partFiles[i]) < L(i)
    /\ downloadedPerPart[i] = Size(partFiles[i])

\* C8 as claimed: while worker i is not done, no step shortens scratch file i
\* unless the file is longer than L_i.
C8_LengthNeverDecreases ==
  [][\A i \in Segs :
       (pc[i] # "done" /\ Size(partFiles'[i]) < Size(partFiles[i])) =>
         Size(partFiles[i]) > L(i)]_vars

\* C8 amended: ... unless the file is longer than L_i, or the attempt's
\* inspection failed with a filesystem error and the attempt, starting fresh,
\* opens the file with flag "w".
C8_DecreaseOnlyOverlongOrInvalid ==
  [][\A i \in Segs :
       (pc[i] # "done" /\ Size(partFiles'[i]) < Size(partFiles[i])) =>
         \/ Size(partFiles[i]) > L(i)
         \/ pc[i] = "sending" /\ ~isValid[i] /\ pc'[i] = "streaming"]_vars

\* an attempt whose inspection failed is about to open a valid partial file
C8_Witness ==
  \E i \in Segs :
    /\ pc[i] = "sending"
    /\ ~isValid[i]
    /\ partFiles[i].exists
    /\ Size(partFiles[i]) >= 1
    /\ Size(partFiles[i]) <= L(i)

\* C9 as claimed: a segment whose status is a completed one has, until the
\* assembler's cleanup, its scratch file on disk with length exactly L_i.
C9_CompletedOnlyAfterLengthCheck ==
  \A i \in Segs :
    (partStatus[i].kind \in CompletedKinds /\ supPc # "returned") =>
      Verify(partFiles[i], L(i))

\* C10: downloadRange has no terminal failure state and no retry cap: a
\* failed attempt is always handled, the backoff is always followed by the
\* next attempt, numbered one higher, and the loop is left only by returning
\* the scratch path with a completed status.
C10_NoRetryCap ==
  /\ [](\A i \in Segs :
          /\ pc[i] \in {"idle", "sending", "streaming", "failed", "backoff", "done"}
          /\ pc[i] = "failed" => ENABLED Catch(i)
          /\ pc[i] = "backoff" => ENABLED Retry(i))
  /\ [][\A i \in Segs :
          /\ (pc[i] = "backoff" /\ pc'[i] \notin {"backoff", "idle"}) =>
               /\ partRetryCount'[i] = partRetryCount[i] + 1
               /\ pc'[i] \in {"sending", "done"}
          /\ (pc[i] # "done" /\ pc'[i] = "done") =>
               /\ parts'[i] = i
               /\ partStatus'[i].kind \in CompletedKinds]_vars

\* a worker is in its second attempt after a failed first one
C10_Witness ==
  \E i \in Segs :
    /\ partRetryCount[i] = 2
    /\ pc[i] \in {"sending", "streaming", "done"}
    /\ faults >= 1

\* the head request failed: download() rejected before any worker was spawned
HeadFailed == supPc = "rejected" /\ \A i \in Segs : pc[i] = "idle"

\* C11 as claimed: in a run that is not cancelled, under the event loop's
\* fairness and with finitely many failing attempts (the head request does
\* not fail), every segment eventually has a completed status and download()
\* eventually returns.
C11_EventuallyReturns ==
  <>(\/ HeadFailed
     \/ /\ supPc = "returned"
        /\ \A i \in Segs : partStatus[i].kind \in CompletedKinds)

\* C12: within a run R_i is 0 until worker i is spawned, goes up by exactly
\* one whenever an attempt of segment i begins (the first one and the ones
\* that short-circuit included) and changes at no other step while the
\* process lives; the total that download() returns is the sum of the R_i,
\* which is N when nothing failed.
C12_RetryCountsAttempts ==
  /\ [](/\ \A i \in Segs : pc[i] = "idle" => partRetryCount[i] = 0
        /\ (supPc = "returned" /\ faults = 0) => GetTotalRetries = concurrency)
  /\ [][\A i \in Segs :
          LET begins == /\ pc[i] \in {"idle", "backoff"}
                        /\ pc'[i] \notin {"idle", "backoff"}
          IN  /\ begins => partRetryCount'[i] = partRetryCount[i] + 1
              /\ (~begins /\ run' = run /\ supPc' # "exited") =>
                   partRetryCount'[i] = partRetryCount[i]]_vars

\* a run returned in which one segment needed two attempts and another one
\* was found complete on disk by its only attempt
C12_Witness ==
  /\ supPc = "returned"
  /\ GetTotalRetries = 3
  /\ \E i, j \in Segs :
       /\ partRetryCount[i] = 2
       /\ partRetryCount[j] = 1
       /\ partStatus[j].kind = "completed (already exists)"

\* C13 as claimed: scratch file i is longer than L_i only in a state whose
\* next step of segment i is the inspection that deletes it.
C13_LengthWithinSegment ==
  \A i \in Segs :
    Size(partFiles[i]) > L(i) => pc[i] \in {"idle", "failed", "backoff"}

\* C13 amended: 0 <= B_i always. Scratch file i becomes longer than L_i only
\* by a chunk that the transport delivers past the requested end (the writer
\* does not cap), and it is then overlong for the rest of that attempt, until
\* an inspection deletes it or, when the delete failed, until the attempt
\* that "starts fresh" opens it with flag "w"; a completed segment is never
\* overlong.
C13_OverlongOnlyByOverDelivery ==
  /\ [](\A i \in Segs :
          /\ Size(partFiles[i]) >= 0
          /\ Size(partFiles[i]) > L(i) =>
               /\ pc[i] # "done"
               /\ partStatus[i].kind \notin CompletedKinds
               /\ pc[i] = "sending" => ~isValid[i])
  /\ [][\A i \in Segs :
          (Size(partFiles[i]) <= L(i) /\ Size(partFiles'[i]) > L(i)) =>
            /\ pc[i] = "streaming"
            /\ req[i].start + session[i] > req[i].end]_vars

\* an attempt ended with more bytes on disk than the segment has
C13_Witness ==
  \E i \in Segs :
    /\ pc[i] = "failed"
    /\ L(i) > 0
    /\ Size(partFiles[i]) > L(i)

\* C14: an inspection that finds scratch file i longer than L_i deletes it
\* (unless the unlink itself throws) and reports no resume bytes; the attempt
\* that follows requests [start_i, end_i] and opens the file with flag "w",
\* so nothing of the overlong file survives, and a run that returns after
\* such a recovery has the object's bytes in its final file.
C14_OverlongIsRecreated ==
  /\ [][\A i \in Segs :
          LET inspects == \/ supPc = "init" /\ supPc' \in {"spawning", "awaiting"}
                          \/ supPc = "spawning" /\ nextSpawn = i /\ nextSpawn' = i + 1
                          \/ pc[i] = "backoff" /\ pc'[i] \in {"sending", "done"}
                          \/ pc[i] = "failed" /\ pc'[i] = "backoff"
          IN  /\ (inspects /\ Size(partFiles[i]) > L(i)) =>
                   /\ \/ partFiles'[i] = Absent
                      \/ faults' > faults /\ partFiles'[i] = partFiles[i]
                   /\ pc'[i] \notin {"idle", "backoff"} =>
                        /\ pc'[i] = "sending"
                        /\ resumeBytes'[i] = 0
                        /\ req'[i] = [start |-> Start(i), end |-> End(i)]
              /\ (pc[i] = "sending" /\ pc'[i] = "streaming" /\ resumeBytes[i] = 0) =>
                   partFiles'[i] = File(<< >>)]_vars
  /\ [](supPc = "returned" =>
          /\ finalFile.data = ObjectBytes(0, objSize)
          /\ \A i \in Segs : Size(partFiles[i]) <= L(i))

\* a run returned after it deleted an overlong scratch file and fetched the
\* whole segment again
C14_Witness ==
  /\ supPc = "returned"
  /\ finalFile = File(ObjectBytes(0, objSize))
  /\ \E i \in Segs :
       /\ L(i) > 0
       /\ fetched[i] >= 2 * L(i) + 1

C16_MergeInIndexOrder ==
  /\ [](supPc = "merging" =>
          /\ \A i \in Segs : parts[i] = i
          /\ LET k == IF mergeRead THEN mergeIdx + 1 ELSE mergeIdx
             IN  finalFile.data \o wsBuf =
                   ObjectBytes(0, IF k = concurrency THEN objSize ELSE Start(k)))
  /\ [][(supPc = "merging" /\ supPc' = "merging") =>
          /\ mergeIdx' # mergeIdx => (mergeRead /\ ~mergeRead' /\ mergeIdx' = mergeIdx + 1)
          /\ (~mergeRead /\ mergeRead') =>
               wsBuf' = wsBuf \o ObjectBytes(Start(mergeIdx), L(mergeIdx))]_vars

\* both segments were copied, and segment 1 was complete on disk before the
\* run fetched segment 0
C16_Witness ==
  /\ supPc = "merging"
  /\ concurrency = 2
  /\ mergeIdx = 1
  /\ mergeRead
  /\ L(0) > 0
  /\ partStatus[1].kind = "completed (already exists)"
  /\ partStatus[0].kind = "completed"
  /\ fetched[0] > 0

\* C17 as claimed: for S = 0, in a first run in which nothing fails, no
\* ranged fetch is issued and download() is not rejected: it ends with an
\* empty final file.
C17_EmptyObjectSucceeds ==
  (objSize = 0 /\ run = 1 /\ faults = 0) =>
    /\ \A i \in Segs : req[i] = NoReq /\ fetched[i] = 0
    /\ supPc # "rejected"
    /\ supPc = "returned" => finalFile = File(<< >>)

\* C18 as claimed: for 0 < S < N, in a first run in which nothing fails, a
\* zero-length segment completes without a fetch and download() is not
\* rejected: it ends with a final file of length S.
C18_FewerBytesThanSegmentsSucceeds ==
  (0 < objSize /\ objSize < concurrency /\ run = 1 /\ faults = 0) =>
    /\ \A i \in Segs :
         (L(i) = 0 /\ pc[i] # "idle") =>
           /\ partStatus[i].kind \in CompletedKinds
           /\ req[i] = NoReq
           /\ fetched[i] = 0
    /\ supPc # "rejected"
    /\ supPc = "returned" => Size(finalFile) = objSize

C21_LogSinkUsable ==
  /\ ~wroteAfterEnd
  /\ supPc \in {"spawning", "awaiting", "merging"} => loggerOpen

\* C22: getPartResumeInfo classifies every scratch file the program can meet:
\* absent -> (0, valid, not complete); a filesystem error on an existing file
\* -> (0, invalid), nothing deleted; otherwise length = L -> (L, valid,
\* complete), length < L -> (length, valid, not complete), length > L ->
\* (0, invalid) with the file deleted; and the file it leaves differs from
\* the file it found only by that deletion.
C22_InspectorClassifies ==
  \A i \in Segs : \A e \in FsErrors :
    LET f == partFiles[i]
        r == GetPartResumeInfo(f, L(i), e)
        threw == f.exists /\ (e = "stat" \/ (e = "unlink" /\ Size(f) > L(i)))
        verdict == [resumeBytes |-> r.resumeBytes, isValid |-> r.isValid,
                    isComplete |-> r.isComplete]
    IN  /\ ~f.exists =>
             /\ verdict = [resumeBytes |-> 0, isValid |-> TRUE, isComplete |-> FALSE]
             /\ r.file = f
        /\ threw =>
             /\ r.resumeBytes = 0 /\ ~r.isValid /\ ~r.isComplete
             /\ r.file = f
        /\ (f.exists /\ ~threw /\ Size(f) = L(i)) =>
             /\ verdict = [resumeBytes |-> L(i), isValid |-> TRUE, isComplete |-> TRUE]
             /\ r.file = f
        /\ (f.exists /\ ~threw /\ Size(f) < L(i)) =>
             /\ verdict = [resumeBytes |-> Size(f), isValid |-> TRUE,
                           isComplete |-> FALSE]
             /\ r.file = f
        /\ (f.exists /\ ~threw /\ Size(f) > L(i)) =>
             /\ r.resumeBytes = 0 /\ ~r.isValid /\ ~r.isComplete
             /\ r.file = Absent
        /\ r.file # f => (f.exists /\ Size(f) > L(i) /\ r.file = Absent)

\* the catch block's inspection met an overlong scratch file and deleted it
C22_Witness ==
  \E i \in Segs :
    /\ pc[i] = "backoff"
    /\ L(i) > 0
    /\ fetched[i] > L(i)
    /\ partFiles[i] = Absent
    /\ GetPartResumeInfo(partFiles[i], L(i), "none").isValid

\* C23 as claimed: a completed status of a segment never changes again while
\* the run lasts.
C23_CompletedIsTerminal ==
  [][\A i \in Segs :
       (partStatus[i].kind \in CompletedKinds /\ run' = run /\ supPc' # "exited") =>
         partStatus'[i] = partStatus[i]]_vars

\* C23 amended: a completed status that worker i set (it returned) never
\* changes again during the run; "completed (already exists)" set by the
\* supervisor's pre-scan is replaced when worker i, at its spawn, fails to
\* inspect the file and starts fresh. "stream error" is only ever showing
\* while the catch block is pending and is replaced by "retrying" of the same
\* attempt k; every failed attempt k ends in "retrying" k, which stays until
\* the next pass of the loop sets "downloading" k+1 or a completed status.
C23_StatusMachine ==
  /\ [](\A i \in Segs :
          /\ partStatus[i].kind = "stream error" =>
               (pc[i] = "failed" /\ ENABLED Catch(i))
          /\ partStatus[i].kind = "retrying" =>
               (pc[i] = "backoff" /\ partStatus[i].attempt = partRetryCount[i])
          /\ pc[i] = "done" => partStatus[i].kind \in CompletedKinds)
  /\ [][\A i \in Segs :
          (run' = run /\ supPc' # "exited") =>
            /\ pc[i] = "done" => partStatus'[i] = partStatus[i]
            /\ (partStatus[i].kind \in CompletedKinds
                  /\ partStatus'[i] # partStatus[i]) =>
                 /\ pc[i] = "idle"
                 /\ partStatus[i].kind = "completed (already exists)"
                 /\ faults' > faults
                 /\ partStatus'[i] \in {St("downloading", 1),
                                        St("completed (resumed)", 0)}
            /\ (pc[i] = "failed" /\ pc'[i] # "failed") =>
                 partStatus'[i] = St("retrying", partRetryCount[i])
            /\ (partStatus[i].kind = "retrying" /\ partStatus'[i] # partStatus[i]) =>
                 /\ partRetryCount'[i] = partStatus[i].attempt + 1
                 /\ \/ partStatus'[i] = St("downloading", partRetryCount'[i])
                    \/ partStatus'[i].kind \in CompletedKinds]_vars

\* attempt 2 of a segment is under way after attempt 1 ended in a stream
\* error with bytes on disk
C23_Witness ==
  \E i \in Segs :
    /\ partStatus[i] = St("downloading", 2)
    /\ pc[i] = "streaming"
    /\ resumeBytes[i] > 0
    /\ faults = 1
    /\ fetched[i] = resumeBytes[i] + session[i]

\* C24: mergeFiles is entered only from the resolved Promise.all: at the
\* step that enters it (to the merge, or to the rejection when a part fails
\* verification) and for as long as the merge lasts, every worker has
\* returned, every segment's status is a completed status and parts[i] is
\* scratch file i.
C24_MergeAfterAllWorkers ==
  /\ [](supPc = "merging" =>
          \A i \in Segs : /\ pc[i] = "done"
                          /\ partStatus[i].kind \in CompletedKinds
                          /\ parts[i] = i)
  /\ [][(supPc = "awaiting" /\ supPc' \in {"merging", "rejected"}) =>
          \A i \in Segs : /\ pc[i] = "done"
                          /\ partStatus[i].kind \in CompletedKinds
                          /\ parts[i] = i]_vars

\* the merge is under way after two workers returned, one of them on its
\* second attempt
C24_Witness ==
  /\ supPc = "merging"
  /\ concurrency = 2
  /\ \E i \in Segs : partRetryCount[i] = 2 /\ partStatus[i].kind = "completed"
  /\ \A i \in Segs : parts[i] = i

\* C25 as claimed: a download() that has rejected has the display stopped,
\* the log stream ended and the final-status report written.
C25_FatalErrorReports ==
  supPc = "rejected" => (~progressInterval /\ ~loggerOpen /\ reported)

\* C25 amended: whenever download() has finished the display timer is
\* cleared and the log stream is ended; a rejection comes from the head
\* request, from the assembler's verification of the parts or from its
\* verification of the final file, never from a worker; the final-status
\* report is written for the assembler's rejections and not for the head
\* request's (there is no tracker to report on).
C25_FinishStopsDisplayAndLog ==
  /\ [](/\ Finished => (~progressInterval /\ ~loggerOpen)
        /\ supPc = "rejected" => (reported <=> ~HeadFailed)
        /\ supPc = "returned" => ~reported
        /\ \A i \in Segs : pc[i] # "rejected")
  /\ [][(supPc # "rejected" /\ supPc' = "rejected") =>
          \/ supPc = "init"
          \/ supPc = "awaiting" /\ PromiseAll /\ ~PartsVerified
          \/ supPc = "merging" /\ mergeIdx = concurrency - 1 /\ ~FinalVerified]_vars

\* download() rejected on the final file's length: the display is stopped,
\* the report is written, the log stream is ended
C25_Witness ==
  /\ supPc = "rejected"
  /\ finalFile.exists
  /\ Size(finalFile) < fileSize
  /\ reported
  /\ ~progressInterval
  /\ ~loggerOpen

\* C26: when the body of segment i ends without a stream error, the attempt
\* returns exactly when the scratch file's length is L_i, and otherwise goes
\* to the catch block with the file and the status as they are; the catch
\* block records the length it finds on disk as the segment's progress, and
\* the next pass of the loop, when its inspection does not throw, requests
\* the bytes from start_i + (length on disk) on and keeps the file (an
\* overlong file is deleted first, so that the length on disk is 0).
C26_LengthDecidesThenResume ==
  [][\A i \in Segs :
       /\ (pc[i] = "streaming" /\ pc'[i] \in {"done", "failed"}
             /\ partStatus'[i].kind # "stream error") =>
            /\ pc'[i] = "done" <=> Size(partFiles[i]) = L(i)
            /\ partFiles'[i] = partFiles[i]
            /\ pc'[i] = "failed" => partStatus'[i] = partStatus[i]
       /\ (pc[i] = "failed" /\ pc'[i] = "backoff" /\ faults' = faults) =>
            /\ downloadedPerPart'[i] = Size(partFiles'[i])
            /\ Size(partFiles[i]) <= L(i) => partFiles'[i] = partFiles[i]
       /\ (pc[i] = "backoff" /\ pc'[i] \in {"sending", "done"}
             /\ faults' = faults) =>
            /\ resumeBytes'[i] = Size(partFiles'[i])
            /\ Size(partFiles[i]) <= L(i) => partFiles'[i] = partFiles[i]
            /\ pc'[i] = "sending" =>
                 req'[i] = [start |-> Start(i) + Size(partFiles'[i]),
                            end |-> End(i)]
            /\ pc'[i] = "done" <=> Size(partFiles'[i]) = L(i)]_vars

\* the body of a two-byte segment ended after one byte: the length check
\* failed the attempt
C26_Witness ==
  \E i \in Segs :
    /\ pc[i] = "failed"
    /\ partStatus[i] = St("downloading", 1)
    /\ L(i) = 2
    /\ session[i] = 1
    /\ Size(partFiles[i]) = 1

\* C27: when the inspection that begins an attempt of segment i throws on an
\* existing scratch file, the file is left as it is (nothing is deleted), the
\* result is invalid with no resume bytes, and the attempt requests the whole
\* segment [start_i, end_i]; when its response arrives the file is opened
\* with flag "w", so it is emptied, not deleted.
C27_InspectionErrorStartsFresh ==
  /\ [](\A i \in Segs :
          (pc[i] \in {"sending", "streaming"} /\ ~isValid[i]) =>
            /\ resumeBytes[i] = 0
            /\ req[i] = [start |-> Start(i), end |-> End(i)])
  /\ [][\A i \in Segs :
          /\ (/\ \/ supPc = "spawning" /\ nextSpawn = i /\ nextSpawn' = i + 1
                 \/ pc[i] = "backoff" /\ pc'[i] \notin {"idle", "backoff"}
              /\ faults' > faults) =>
               /\ partFiles[i].exists
               /\ partFiles'[i] = partFiles[i]
               /\ resumeBytes'[i] = 0
               /\ ~isValid'[i]
               /\ pc'[i] = IF L(i) > 0 THEN "sending" ELSE "done"
          /\ (pc[i] \in {"idle", "backoff"} /\ pc'[i] \notin {"idle", "backoff"}
                /\ ~isValid'[i] /\ partFiles'[i].exists) =>
               /\ partFiles'[i] = partFiles[i]
               /\ faults' > faults
          /\ (pc[i] = "sending" /\ ~isValid[i] /\ pc'[i] = "streaming") =>
               partFiles'[i] = File(<< >>)]_vars

\* a later run's inspection of an existing scratch file threw, and the
\* attempt that started fresh has opened the file
C27_Witness ==
  \E i \in Segs :
    /\ run = 2
    /\ pc[i] = "streaming"
    /\ ~isValid[i]
    /\ partFiles[i] = File(<< >>)
    /\ req[i] = [start |-> Start(i), end |-> End(i)]
    /\ L(i) > 0
    /\ faults = 1

\* C28: scratch file i has at most one open write stream, and has one
\* exactly while an attempt of worker i is streaming; a stream is opened only
\* by worker i's step from the response to the pipeline and only when none is
\* open; every way out of the streaming (return, length mismatch, stream
\* error, interrupt, kill) leaves none open; a step that creates, empties or
\* extends scratch file i is a step of worker i alone.
C28_OneWriteHandlePerScratch ==
  /\ [](\A i \in Segs :
          /\ writeStreams[i] \in {0, 1}
          /\ writeStreams[i] = 1 <=> pc[i] = "streaming")
  /\ [][\A i \in Segs :
          /\ writeStreams'[i] > writeStreams[i] =>
               /\ writeStreams[i] = 0
               /\ pc[i] = "sending" /\ pc'[i] = "streaming"
          /\ (pc[i] = "streaming" /\ pc'[i] # "streaming") => writeStreams'[i] = 0
          /\ (\/ Size(partFiles'[i]) > Size(partFiles[i])
              \/ ~partFiles[i].exists /\ partFiles'[i].exists
              \/ writeStreams'[i] > writeStreams[i]) =>
               /\ pc'[i] = "streaming"
               /\ writeStreams'[i] = 1
               /\ \A j \in Segs \ {i} :
                    /\ pc'[j] = pc[j]
                    /\ writeStreams'[j] = writeStreams[j]
                    /\ partFiles'[j] = partFiles[j]]_vars

\* the second attempt of a segment has opened the scratch file again, in
\* append mode, after the first attempt's stream was closed
C28_Witness ==
  \E i \in Segs :
    /\ pc[i] = "streaming"
    /\ writeStreams[i] = 1
    /\ partRetryCount[i] = 2
    /\ resumeBytes[i] > 0
    /\ session[i] = 0
    /\ Size(partFiles[i]) = resumeBytes[i]

C30_CleanupFailureNotFatal ==
  /\ [](supPc = "returned" =>
          /\ Verify(finalFile, fileSize)
          /\ finalFile.data = ObjectBytes(0, objSize)
          /\ \A i \in Segs :
               IF i \in cleanFailed
                 THEN partFiles[i] = File(ObjectBytes(Start(i), L(i)))
                 ELSE partFiles[i] = Absent)
  /\ [][(supPc = "merging" /\ supPc' \in {"returned", "rejected"}) =>
          (supPc' = "returned" <=> FinalVerified)]_vars

\* download() returned although the unlink of the first of two scratch files
\* failed; the second one was deleted all the same
C30_Witness ==
  /\ supPc = "returned"
  /\ concurrency = 2
  /\ cleanFailed = {0}
  /\ partFiles[0].exists
  /\ ~partFiles[1].exists
  /\ finalFile = File(ObjectBytes(0, objSize))
  /\ objSize = 2

\* C33: in a run that found every scratch file at its full length L_i, and
\* with no fault of the environment, nothing is requested from the network:
\* no worker ever sends a ranged fetch, every worker that was spawned has
\* returned from its only attempt with "completed (already exists)", the
\* scratch files stay as they are, and when the last worker was spawned the
\* parts pass the assembler's verification.
C33_CompleteScratchNoFetch ==
  /\ [](( startComplete /\ faults = 0
          /\ supPc \in {"spawning", "awaiting", "merging"}) =>
          /\ \A i \in Segs :
               /\ fetched[i] = 0
               /\ pc[i] \in {"idle", "done"}
               /\ pc[i] = "idle" <=> (supPc = "spawning" /\ i >= nextSpawn)
               /\ partStatus[i] = St("completed (already exists)", 0)
               /\ partRetryCount[i] = IF pc[i] = "done" THEN 1 ELSE 0
               /\ downloadedPerPart[i] = L(i)
               /\ partFiles[i] = File(ObjectBytes(Start(i), L(i)))
          /\ supPc = "awaiting" => (PromiseAll /\ PartsVerified))
  /\ [][\A i \in Segs :
          (pc'[i] = "sending" /\ pc[i] # "sending" /\ faults' = faults) =>
            ~Verify(partFiles[i], L(i))]_vars

\* a run that found both scratch files complete is merging them without
\* having fetched a byte
C33_Witness ==
  /\ startComplete
  /\ faults = 0
  /\ run = 2
  /\ supPc = "merging"
  /\ concurrency = 2
  /\ objSize = 2
  /\ \A i \in Segs : fetched[i] = 0 /\ partRetryCount[i] = 1

\* C34: with no fault of the environment, the step of mergeFiles that takes
\* the final length check is taken with every piped byte already written to
\* the final file, and, the parts having been verified, it finds the final
\* file at its full length.
C34_FinalCheckAfterAllWrites ==
  [][(faults = 0 /\ supPc = "merging" /\ supPc' \in {"returned", "rejected"}) =>
       /\ wsBuf = << >>
       /\ Size(finalFile) = fileSize
       /\ supPc' = "returned"]_vars

\* C35: the tracker's downloaded bytes of segment i are always within
\* [0, L_i], so that their sum is at most the object's size.
C35_ProgressWithinSegment ==
  /\ \A i \in Segs : 0 <= downloadedPerPart[i] /\ downloadedPerPart[i] <= L(i)
  /\ SumTo(downloadedPerPart, concurrency - 1) <= objSize

\* C36: the step by which worker i leaves its catch block for the backoff
\* sleep sets the tracker's downloaded bytes of segment i to the resume
\* length an inspection reports for scratch file i as that step leaves it
\* (its length, 0 when it is absent or was deleted as overlong), or to 0
\* when the catch block's inspection threw; the value and the file stay so
\* for the whole sleep.
C36_BackoffProgressMatchesDisk ==
  /\ [](\A i \in Segs :
          pc[i] = "backoff" =>
            /\ downloadedPerPart[i] \in {0, Size(partFiles[i])}
            /\ downloadedPerPart[i] <= L(i))
  /\ [][\A i \in Segs :
          /\ (pc[i] = "failed" /\ pc'[i] = "backoff") =>
               \/ downloadedPerPart'[i] =
                    GetPartResumeInfo(partFiles'[i], L(i), "none").resumeBytes
               \/ faults' > faults /\ downloadedPerPart'[i] = 0
          /\ (pc[i] = "backoff" /\ pc'[i] = "backoff") =>
               /\ downloadedPerPart'[i] = downloadedPerPart[i]
               /\ partFiles'[i] = partFiles[i]]_vars

\* worker i sleeps after its first attempt of a two-byte segment failed with
\* one byte on disk, and the tracker shows that byte
C36_Witness ==
  \E i \in Segs :
    /\ pc[i] = "backoff"
    /\ partStatus[i] = St("retrying", 1)
    /\ L(i) = 2
    /\ fetched[i] = 1
    /\ partFiles[i] = File(ObjectBytes(Start(i), 1))
    /\ downloadedPerPart[i] = 1

\* C37: while the display timer is set, every segment's status falls in
\* exactly one of the four displayed categories, so that the four counts sum
\* to N.
C37_CountsSumToN ==
  progressInterval =>
    /\ \A i \in Segs :
         Cardinality({cat \in DisplayCategories :
                        InCategory(partStatus[i].kind, cat)}) = 1
    /\ DisplayCount("completed") + DisplayCount("downloading")
         + DisplayCount("pending") + DisplayCount("retrying") = concurrency

\* C31: each segment's speed history holds at most 10 records and loses its
\* oldest record first; every record of the global speed history is less
\* than 30 s older than the newest one; consecutive records of the global
\* history are at least 1 s apart.
C31_SpeedHistoriesBounded ==
  /\ [](\A i \in Segs : Len(partSpeedHistory[i]) <= 10)
  /\ [](\A k \in 1 .. Len(globalSpeedHistory) :
          globalSpeedHistory[Len(globalSpeedHistory)].timestamp
            - globalSpeedHistory[k].timestamp < 30000)
  /\ [](\A k \in 1 .. (Len(globalSpeedHistory) - 1) :
          globalSpeedHistory[k + 1].timestamp
            - globalSpeedHistory[k].timestamp >= 1000)
  /\ [][\A i \in Segs :
          partSpeedHistory'[i] # partSpeedHistory[i] =>
            /\ Len(partSpeedHistory'[i]) > 0
            /\ SubSeq(partSpeedHistory'[i], 1, Len(partSpeedHistory'[i]) - 1)
                 = IF Len(partSpeedHistory[i]) = 10
                     THEN Tail(partSpeedHistory[i])
                     ELSE partSpeedHistory[i]]_vars

\* part 0 reported an eleventh time, 15 s after its tenth report: its history
\* still holds ten records and lost the first one, and the global history
\* lost its records of more than 30 s ago and kept the others
C31_Witness ==
  /\ updates > 0
  /\ Len(partSpeedHistory[0]) = 10
  /\ partSpeedHistory[0][1].timestamp = Epoch + 2 * WarmStepMs
  /\ partSpeedHistory[0][10].timestamp = now
  /\ Len(globalSpeedHistory) = 9
  /\ globalSpeedHistory[1].timestamp = now - 30000 + 1000
  /\ globalSpeedHistory[9].timestamp = now

\* C32: with remaining = S - total_downloaded > 0, the estimate of a display
\* is the active-segment estimate when at least 2 segments are active and it
\* is finite and positive; otherwise the global-average estimate when that is
\* finite and positive; otherwise the overall-average estimate when that is
\* finite and positive; otherwise 'unknown'; and the method tag names the
\* estimator whose value is returned.
C32_EtaPriorityOrder ==
  (etaInfo # NoEta /\ fileSize - SumTo(downloadedPerPart, concurrency - 1) > 0) =>
    LET remaining == fileSize - SumTo(downloadedPerPart, concurrency - 1)
        active == GetActiveThreadsSpeed(SamplingState, now)
        etaActive == EtaBy(remaining, active.activeSpeed)
        etaGlobal == EtaBy(remaining, GetGlobalAverageSpeed(SamplingState, now))
        etaOverall == EtaBy(remaining, OverallAverageSpeed(SamplingState, now))
        byActive == active.activeCount >= 2 /\ FinitePositive(etaActive)
        byGlobal == ~byActive /\ FinitePositive(etaGlobal)
        byOverall == /\ ~byActive
                     /\ ~FinitePositive(etaGlobal)
                     /\ FinitePositive(etaOverall)
    IN  /\ byActive =>
             /\ etaInfo.method = "active"
             /\ etaInfo.activeThreads = active.activeCount
             /\ etaInfo.eta = etaActive
        /\ byGlobal => etaInfo.method = "global" /\ etaInfo.eta = etaGlobal
        /\ byOverall => etaInfo.method = "overall" /\ etaInfo.eta = etaOverall
        /\ (~byActive /\ ~byGlobal /\ ~byOverall) =>
             etaInfo.method = "unknown" /\ etaInfo.eta = RZero

\* a display right after two segments reported data: both are active, the
\* global average is positive too, and the display shows the estimate of the
\* active segments, which differs from the one of the global average
C32_Witness ==
  /\ etaInfo.method = "active"
  /\ etaInfo.activeThreads = 2
  /\ fileSize - SumTo(downloadedPerPart, concurrency - 1) > 0
  /\ FinitePositive(EtaBy(fileSize - SumTo(downloadedPerPart, concurrency - 1),
                          GetGlobalAverageSpeed(SamplingState, now)))
  /\ etaInfo.eta # EtaBy(fileSize - SumTo(downloadedPerPart, concurrency - 1),
                         GetGlobalAverageSpeed(SamplingState, now))

====
